---- MODULE Spec2Model ----
(***************************************************************************)
(* Hash-chained audit ledger of the Saudi AI Audit platform                *)
(* (saudi-ai-audit/audit/core.py, class HashChainedLedger), its backup     *)
(* system (audit/backup.py, class AutomatedBackupSystem) and its disaster  *)
(* recovery system (backup/disaster_recovery.py, class                     *)
(* DisasterRecoverySystem).                                                *)
(*                                                                         *)
(* Modelling conventions                                                   *)
(*  - Ids produced by formatting are sequences of string tokens.  JSON     *)
(*    text is the tagged record it serialises and SHA-256 is collision     *)
(*    free, so a digest is its tagged preimage: two digests are equal      *)
(*    exactly when the hashed records have the same keys and values.       *)
(*  - Python dicts are TLA+ records; a key that is absent in the dict is   *)
(*    absent from the record's DOMAIN.                                     *)
(*  - Python list positions are 0-based; chain[p + 1] is the entry at      *)
(*    Python position p.                                                   *)
(*  - The wall clock is the variable now, counted in ticks of TickHours    *)
(*    hours; every coroutine of the ledger runs without a suspension       *)
(*    point, so each call is one atomic action.                            *)
(*  - integrity_score is the exact rational num/den.                       *)
(***************************************************************************)
EXTENDS Integers, Sequences, FiniteSets, TLC

\* ---- bounds of the model ------------------------------------------------
MaxLen == 2
ScenarioLen == 5
MaxClock == 1
TickHours == 6
MaxDaily == 2
MaxDay == 42

\* ---- configuration set in __init__ --------------------------------------
genesis_hash == [genesis |-> "SAUDI_AI_AUDIT_GENESIS_2024"]
retention_years == 7
backup_interval_hours == 4
max_append_time_ms == 50
CleanupDays == 30
daily_retention_days == 30
Sunday == 6
DaysPerMonth == 30

VARIABLES
    now,                         \* wall clock, in ticks
    chain,                       \* self.chain
    chain_index,                 \* self.chain_index
    last_backup,                 \* self._last_backup
    corruption_checks_enabled,   \* self._corruption_checks_enabled
    pending_backups,             \* _backup_chain tasks created, not yet run
    chain_file,                  \* data_dir/audit_chain.pkl.gz
    backup_files,                \* data_dir/audit_chain_backup_*.pkl.gz (name, size, mtime)
    corruption_file,             \* latest data_dir/corruption_report_*.json
    result,                      \* value returned by the latest call
    tamper,                      \* the out-of-band change made so far, if any
    recovery_in_progress,        \* DisasterRecoverySystem.recovery_in_progress
    recovery,                    \* frame of the running perform_recovery call
    recovery_trace,              \* steps executed by the running perform_recovery
    recovery_point,              \* disaster_recovery/RP_* directory
    backup_storage,              \* backup_storage/daily/backup_* directories
    archives,                    \* backup_storage/monthly/* and backup_storage/yearly/* directories
    restore_target,              \* restore_path/audit_chain.pkl.gz
    config_files,                \* config.json and settings.ini exist
    pre_recovery_chain           \* latest data_dir/audit_chain_pre_recovery_*.pkl.gz

\* State of the disaster-recovery and backup systems.
dr_vars == <<recovery_in_progress, recovery, recovery_trace, recovery_point,
             backup_storage, archives, restore_target, config_files,
             pre_recovery_chain>>

vars == <<now, chain, chain_index, last_backup, corruption_checks_enabled,
          pending_backups, chain_file, backup_files, corruption_file,
          result, tamper, dr_vars>>

\* ---- values -------------------------------------------------------------
None == [none |-> TRUE]
Unset == "<None>"
NoResult == [op |-> "none"]
NoTamper == [field |-> "none"]
NoReport == [error_code |-> "none"]
NoFile == [exists |-> FALSE, content |-> <<>>]
NoPoint == [exists |-> FALSE]
Idle == [pc |-> "idle"]

\* Decision payloads handed to append_entry.
\* The second payload is the one the log_decision endpoint builds: its
\* timestamp_gregorian is a datetime object, which json.dumps cannot encode.
Payloads ==
    { [decision_type |-> "procurement", user_id |-> "1234567890",
       performance_metrics |-> 60],
      [decision_type |-> "procurement", user_id |-> "1234567890",
       timestamp_gregorian |-> [datetime |-> "now"]] }

\* The payloads of the five-entry scenario: user ids 1234567890..94.
ScenarioUsers == <<"1234567890", "1234567891", "1234567892", "1234567893",
                   "1234567894", "1234567895", "1234567896">>
ScenarioPayload(n) ==
    [decision_type |-> "procurement", user_id |-> ScenarioUsers[n + 1]]

Confidences == {70, 90}

\* ---- helpers ------------------------------------------------------------
IsPrefix(s, t) == Len(s) <= Len(t) /\ SubSeq(t, 1, Len(s)) = s

HoursOf(t) == t * TickHours

DayOf(t) == HoursOf(t) \div 24

\* utils/hijri.py get_hijri_date: the calendar day of the instant.
get_hijri_date(t) == <<"hijri-day", DayOf(t)>>

\* dict.get(key, default)
Get(d, key, default) == IF key \in DOMAIN d THEN d[key] ELSE default

\* ---- canonical serialization and hashing --------------------------------
\* json.dumps(entry_copy, sort_keys=True): with sorted keys the document is
\* determined by the mapping alone, so it is modelled by the mapping; a key
\* whose value is None ("hash": null) stays in the document, a deleted key
\* does not.
JsonDumps(entry_copy) == [json |-> entry_copy]

\* json.dumps raises TypeError when the default encoder meets a value it
\* cannot encode; the only such values in the model are the datetime objects
\* under the key timestamp_gregorian of a payload.
JsonDumpsRaises(entry_copy) ==
    /\ "data" \in DOMAIN entry_copy
    /\ "timestamp_gregorian" \in DOMAIN entry_copy.data

\* hashlib.sha256(...).hexdigest(): collision free, a digest is its tagged
\* preimage.
Sha256(text) == [sha256 |-> text]

\* entry.copy() followed by del entry_copy["hash"]
WithoutHash(entry) ==
    [id |-> entry.id,
     data |-> entry.data,
     timestamp |-> entry.timestamp,
     timestamp_hijri |-> entry.timestamp_hijri,
     previous_hash |-> entry.previous_hash,
     chain_position |-> entry.chain_position,
     retention_until |-> entry.retention_until]

calculate_hash(entry, exclude_hash) ==
    LET entry_copy == IF exclude_hash /\ "hash" \in DOMAIN entry
                      THEN WithoutHash(entry)
                      ELSE entry
    IN  Sha256(JsonDumps(entry_copy))

\* ---- private methods ----------------------------------------------------
generate_entry_id(entry_data, t) ==
    <<Get(entry_data, "decision_type", "UNKNOWN"), "_",
      Get(entry_data, "user_id", "SYSTEM"), "_", ToString(t)>>

\* Variants of _get_latest_hash with a slip: the tail is never consulted;
\* the empty chain has no sentinel.
get_latest_hash_genesis_only(ch) == genesis_hash

get_latest_hash_no_sentinel(ch) ==
    IF ch = <<>> THEN None ELSE ch[Len(ch)].hash

get_latest_hash(ch) ==
    IF ch = <<>> THEN genesis_hash ELSE ch[Len(ch)].hash

should_backup(t, last) == HoursOf(t - last) > backup_interval_hours

\* Variant of the dict with a slip: positions counted from one.
complete_entry_one_based(entry_data, t, ch) ==
    [id |-> generate_entry_id(entry_data, t),
     data |-> entry_data,
     timestamp |-> t,
     timestamp_hijri |-> get_hijri_date(t),
     previous_hash |-> get_latest_hash(ch),
     hash |-> None,
     chain_position |-> Len(ch) + 1,
     retention_until |-> HoursOf(t) + 365 * retention_years * 24]

\* The dict built by append_entry, with "hash" still None.
complete_entry(entry_data, t, ch) ==
    [id |-> generate_entry_id(entry_data, t),
     data |-> entry_data,
     timestamp |-> t,
     timestamp_hijri |-> get_hijri_date(t),
     previous_hash |-> get_latest_hash(ch),
     hash |-> None,
     chain_position |-> Len(ch),
     retention_until |-> HoursOf(t) + 365 * retention_years * 24]

\* complete_entry["hash"] = self._calculate_hash(complete_entry)
sealed_entry(entry_data, t, ch) ==
    LET e == complete_entry(entry_data, t, ch)
    IN  [e EXCEPT !.hash = calculate_hash(e, FALSE)]

\* chain_index[entry_id] = len(chain) - 1
IndexPut(idx, id, pos) == (id :> pos) @@ idx

\* ---- state after construction on an empty data directory ----------------
Init ==
    /\ now = 0
    /\ chain = <<>>
    /\ chain_index = <<>>
    /\ last_backup = 0
    /\ corruption_checks_enabled = TRUE
    /\ pending_backups = 0
    /\ chain_file = NoFile
    /\ backup_files = {}
    /\ corruption_file = NoReport
    /\ result = NoResult
    /\ tamper = NoTamper
    /\ recovery_in_progress = FALSE
    /\ recovery = Idle
    /\ recovery_trace = <<>>
    /\ recovery_point = NoPoint
    /\ backup_storage = {}
    /\ archives = {}
    /\ restore_target = NoFile
    /\ config_files = FALSE
    /\ pre_recovery_chain = NoFile

\* ---- the chain file ------------------------------------------------------
\* pickle.dump / pickle.load: the byte string of a pickled object graph of
\* lists, dicts, strings, numbers and None, and the object read back from it.
PickleDumps(obj) == [pickle |-> obj]
PickleLoads(bytes) == bytes.pickle

\* gzip.open(..., 'wb') / gzip.open(..., 'rb'): a complete gzip stream, and
\* the bytes it holds.  Reading anything else (a stream cut short, bytes that
\* were never compressed) raises.
GzipCompress(bytes) == [gzip |-> bytes]
GzipRaises(bytes) == "gzip" \notin DOMAIN bytes
GzipDecompress(bytes) == bytes.gzip

\* What is on disk when the writer dies after open(..., 'wb') has emptied the
\* file and before the stream is complete.
CutShort(bytes) == [cut_short |-> bytes]

\* Lines 356-358: gzip.open(current_file, 'wb'); pickle.dump(self.chain, f)
written_chain_file(ch) ==
    [exists |-> TRUE, content |-> GzipCompress(PickleDumps(ch))]

\* Variant of _load_existing_chain with a slip: the last entry is dropped.
load_existing_chain_short(file) ==
    IF file.exists /\ ~GzipRaises(file.content)
    THEN LET ch == PickleLoads(GzipDecompress(file.content))
         IN  SubSeq(ch, 1, Len(ch) - 1)
    ELSE <<>>

\* _load_existing_chain, the chain: the unpickled list when the file exists
\* and can be read, the empty list otherwise (lines 325-328, 337-339).
load_existing_chain(file) ==
    IF file.exists /\ ~GzipRaises(file.content)
    THEN PickleLoads(GzipDecompress(file.content))
    ELSE <<>>

\* _load_existing_chain, the index (lines 331-333).
RECURSIVE rebuild_index(_, _)
rebuild_index(ch, n) ==
    IF n = 0 THEN <<>>
    ELSE IndexPut(rebuild_index(ch, n - 1), ch[n].id, n - 1)

\* ---- the clock ----------------------------------------------------------
Tick ==
    /\ now < MaxClock
    /\ now' = now + 1
    /\ UNCHANGED <<chain, chain_index, last_backup, corruption_checks_enabled,
                   pending_backups, chain_file, backup_files, corruption_file,
                   result, tamper, dr_vars>>

\* ---- append_entry -------------------------------------------------------
\* Lines 64-97: build the entry, seal it, append, index, schedule a backup.
\* The writes-disabled flag is not read.
AppendFailed == [op |-> "append_entry", raised |-> "Chain append failed"]

\* Variant of append_entry with a slip: the entry is appended and indexed
\* before it is hashed, so a failing serialization leaves it in the chain.
append_entry_commit_first(entry_data, bound, returned) ==
    LET e == complete_entry(entry_data, now, chain)
    IN  /\ Len(chain) < bound
        /\ chain' = Append(chain, IF JsonDumpsRaises(e) THEN e
                                  ELSE sealed_entry(entry_data, now, chain))
        /\ chain_index' = IndexPut(chain_index, e.id, Len(chain))
        /\ pending_backups' = IF ~JsonDumpsRaises(e) /\ should_backup(now, last_backup)
                              THEN pending_backups + 1 ELSE pending_backups
        /\ result' = IF JsonDumpsRaises(e) THEN AppendFailed
                     ELSE IF returned
                          THEN [op |-> "append_entry", entry_id |-> e.id]
                          ELSE [op |-> "log_bias_alert"]
        /\ UNCHANGED <<now, last_backup, corruption_checks_enabled,
                       chain_file, backup_files, corruption_file, tamper, dr_vars>>

\* Line 83 raises when the entry cannot be serialized: lines 86-97 are
\* skipped and the except clause of lines 101-103 raises to the caller.
append_entry(entry_data, bound, returned) ==
    IF JsonDumpsRaises(complete_entry(entry_data, now, chain))
    THEN /\ result' = AppendFailed
         /\ UNCHANGED <<now, chain, chain_index, last_backup,
                        corruption_checks_enabled, pending_backups,
                        chain_file, backup_files, corruption_file, tamper, dr_vars>>
    ELSE
    LET e == sealed_entry(entry_data, now, chain)
    IN  /\ Len(chain) < bound
        /\ chain' = Append(chain, e)
        /\ chain_index' = IndexPut(chain_index, e.id, Len(chain))
        /\ pending_backups' = IF should_backup(now, last_backup)
                              THEN pending_backups + 1 ELSE pending_backups
        /\ result' = IF returned
                     THEN [op |-> "append_entry", entry_id |-> e.id]
                     ELSE [op |-> "log_bias_alert"]
        /\ UNCHANGED <<now, last_backup, corruption_checks_enabled,
                       chain_file, backup_files, corruption_file, tamper, dr_vars>>

AppendEntry == \E entry_data \in Payloads : append_entry(entry_data, MaxLen, TRUE)

\* ---- log_bias_alert -----------------------------------------------------
alert_entry(entry_id, confidence, t) ==
    [id |-> <<"BIAS_ALERT_", ToString(t)>>,
     alert_type |-> "bias_detection",
     related_entry |-> entry_id,
     bias_details |-> confidence,
     severity |-> IF confidence > 80 THEN "HIGH" ELSE "MEDIUM",
     regulatory_notification |-> TRUE,
     timestamp |-> t]

LogBiasAlert ==
    \E p \in 1..Len(chain), confidence \in Confidences :
        /\ Get(chain[p].data, "decision_type", Unset) = "procurement"
        /\ append_entry(alert_entry(chain[p].id, confidence, now), MaxLen, FALSE)

\* ---- verify_chain_integrity ---------------------------------------------
\* Variant of the loop body with a slip: the link check starts one entry late.
entry_findings_late_link(ch, i) ==
    LET entry == ch[i + 1]
        expected_hash == calculate_hash(entry, TRUE)
        hash_record ==
            IF entry.hash # expected_hash
            THEN << [position |-> i, entry_id |-> entry.id,
                     expected_hash |-> expected_hash,
                     actual_hash |-> entry.hash] >>
            ELSE <<>>
        link_record ==
            IF i > 1 /\ entry.previous_hash # ch[i].hash
            THEN << [position |-> i, entry_id |-> entry.id,
                     chain_link_broken |-> TRUE] >>
            ELSE <<>>
    IN  hash_record \o link_record

\* One iteration of the loop of lines 124-145, for Python position i.
entry_findings(ch, i) ==
    LET entry == ch[i + 1]
        expected_hash == calculate_hash(entry, TRUE)
        hash_record ==
            IF entry.hash # expected_hash
            THEN << [position |-> i, entry_id |-> entry.id,
                     expected_hash |-> expected_hash,
                     actual_hash |-> entry.hash] >>
            ELSE <<>>
        link_record ==
            IF i > 0 /\ entry.previous_hash # ch[i].hash
            THEN << [position |-> i, entry_id |-> entry.id,
                     chain_link_broken |-> TRUE] >>
            ELSE <<>>
    IN  hash_record \o link_record

\* corrupted_entries after the first n iterations.
RECURSIVE scan(_, _)
scan(ch, n) == IF n = 0 THEN <<>> ELSE scan(ch, n - 1) \o entry_findings(ch, n - 1)

\* _handle_corruption: the report written to corruption_report_*.json.
corruption_report(corrupted_entries, t, ch) ==
    [error_code |-> "CHAIN_CORRUPTION",
     detected_at |-> t,
     corrupted_count |-> Len(corrupted_entries),
     total_entries |-> Len(ch),
     corruption_entries |-> corrupted_entries]

\* Line 159: 1.0 - len(corrupted_entries) / len(self.chain), as the exact
\* rational num/den, for a non-empty chain.
integrity_score_of(ch) ==
    [num |-> Len(ch) - Len(scan(ch, Len(ch))), den |-> Len(ch)]

\* timeout_at = k > 0: the elapsed-time check of line 149 fires after k
\* entries; timeout_at = 0: it never fires.
VerifyChainIntegrity(timeout_at) ==
    LET corrupted_entries == scan(chain, Len(chain))
        corruption_found == corrupted_entries # <<>>
    IN  /\ timeout_at \in 0..Len(chain)
        /\ IF chain = <<>>
           THEN /\ result' = [op |-> "verify_chain_integrity", valid |-> TRUE,
                              entries_count |-> 0,
                              integrity_score |-> [num |-> 1, den |-> 1]]
                /\ UNCHANGED <<corruption_file, corruption_checks_enabled>>
           ELSE IF timeout_at > 0
           THEN /\ result' = [op |-> "verify_chain_integrity", valid |-> FALSE,
                              error |-> "Verification timeout",
                              partial_verification |-> TRUE,
                              entries_checked |-> timeout_at]
                /\ UNCHANGED <<corruption_file, corruption_checks_enabled>>
           ELSE /\ result' = [op |-> "verify_chain_integrity",
                              valid |-> ~corruption_found,
                              entries_count |-> Len(chain),
                              integrity_score |-> integrity_score_of(chain),
                              corrupted_entries |-> corrupted_entries]
                /\ IF corruption_found
                   THEN /\ corruption_file' =
                               corruption_report(corrupted_entries, now, chain)
                        /\ corruption_checks_enabled' = FALSE
                   ELSE UNCHANGED <<corruption_file, corruption_checks_enabled>>
        /\ UNCHANGED <<now, chain, chain_index, last_backup, pending_backups,
                       chain_file, backup_files, tamper, dr_vars>>

Verify == \E timeout_at \in 0..Len(chain) : VerifyChainIntegrity(timeout_at)

\* ---- get_latest_hash ----------------------------------------------------
GetLatestHash ==
    /\ result' = [op |-> "get_latest_hash", value |-> get_latest_hash(chain)]
    /\ UNCHANGED <<now, chain, chain_index, last_backup,
                   corruption_checks_enabled, pending_backups, chain_file,
                   backup_files, corruption_file, tamper, dr_vars>>

\* ---- verify_range -------------------------------------------------------
\* SelectSeq with the filter of lines 192-196.
matching_entries(ch, start_date, end_date, decision_type) ==
    LET Matches(entry) ==
            /\ start_date <= entry.timestamp
            /\ entry.timestamp <= end_date
            /\ \/ decision_type = Unset
               \/ Get(entry.data, "decision_type", Unset) = decision_type
    IN  SelectSeq(ch, Matches)

RECURSIVE range_findings(_)
range_findings(entries) ==
    IF entries = <<>> THEN <<>>
    ELSE LET entry == Head(entries)
             expected_hash == calculate_hash(entry, TRUE)
         IN  (IF entry.hash # expected_hash
              THEN << [entry_id |-> entry.id, timestamp |-> entry.timestamp,
                       expected_hash |-> expected_hash,
                       actual_hash |-> entry.hash] >>
              ELSE <<>>) \o range_findings(Tail(entries))

Max(a, b) == IF a >= b THEN a ELSE b

\* Variant of verify_range with a slip: corrupted entries in the window are
\* handed to _handle_corruption.
VerifyRange_handling ==
    \E start_date \in 0..MaxClock, decision_type \in {Unset, "procurement"} :
      \E end_date \in start_date..MaxClock :
        LET matching == matching_entries(chain, start_date, end_date, decision_type)
            corrupted_entries == range_findings(matching)
        IN  /\ result' = [op |-> "verify_range",
                          valid |-> corrupted_entries = <<>>,
                          entries_count |-> Len(matching),
                          integrity_score |->
                              [num |-> Max(Len(matching), 1) - Len(corrupted_entries),
                               den |-> Max(Len(matching), 1)],
                          corrupted_entries |-> corrupted_entries]
            /\ corruption_checks_enabled' =
                   (corruption_checks_enabled /\ corrupted_entries = <<>>)
            /\ UNCHANGED <<now, chain, chain_index, last_backup,
                           pending_backups, chain_file, backup_files,
                           corruption_file, tamper, dr_vars>>

VerifyRange ==
    \E start_date \in 0..MaxClock, decision_type \in {Unset, "procurement"} :
      \E end_date \in start_date..MaxClock :
        LET matching == matching_entries(chain, start_date, end_date, decision_type)
            corrupted_entries == range_findings(matching)
        IN  /\ result' = [op |-> "verify_range",
                          valid |-> corrupted_entries = <<>>,
                          entries_count |-> Len(matching),
                          integrity_score |->
                              [num |-> Max(Len(matching), 1) - Len(corrupted_entries),
                               den |-> Max(Len(matching), 1)],
                          corrupted_entries |-> corrupted_entries]
            /\ UNCHANGED <<now, chain, chain_index, last_backup,
                           corruption_checks_enabled, pending_backups,
                           chain_file, backup_files, corruption_file, tamper, dr_vars>>

\* ---- get_daily_statistics -----------------------------------------------
RECURSIVE Sum(_)
Sum(ns) == IF ns = <<>> THEN 0 ELSE Head(ns) + Sum(Tail(ns))

RECURSIVE MaxOf(_)
MaxOf(ns) == IF Len(ns) = 1 THEN Head(ns) ELSE Max(Head(ns), MaxOf(Tail(ns)))

GetDailyStatistics ==
    \E date \in 0..1 :
        LET InDay(entry) == DayOf(entry.timestamp) = date
            daily_entries == SelectSeq(chain, InDay)
            HasMetrics(entry) == "performance_metrics" \in DOMAIN entry.data
            with_metrics == SelectSeq(daily_entries, HasMetrics)
            processing_times ==
                [i \in 1..Len(with_metrics) |-> with_metrics[i].data.performance_metrics]
            types == {Get(daily_entries[i].data, "decision_type", "unknown") :
                          i \in 1..Len(daily_entries)}
            by_type ==
                [ty \in types |->
                    Cardinality({i \in 1..Len(daily_entries) :
                        Get(daily_entries[i].data, "decision_type", "unknown") = ty})]
            SlowOnes(ms) == ms > max_append_time_ms
            sla_violations ==
                IF processing_times = <<>> THEN 0
                ELSE Len(SelectSeq(processing_times, SlowOnes))
        IN  /\ result' =
                [op |-> "get_daily_statistics",
                 total_decisions |-> Len(daily_entries),
                 by_type |-> by_type,
                 performance |->
                    [avg_processing_time_ms |->
                        IF processing_times = <<>> THEN [num |-> 0, den |-> 1]
                        ELSE [num |-> Sum(processing_times),
                              den |-> Len(processing_times)],
                     max_processing_time_ms |->
                        IF processing_times = <<>> THEN 0 ELSE MaxOf(processing_times),
                     sla_violations |-> sla_violations,
                     sla_compliance_rate |->
                        [num |-> Max(Len(daily_entries), 1) - sla_violations,
                         den |-> Max(Len(daily_entries), 1)]]]
            /\ UNCHANGED <<now, chain, chain_index, last_backup,
                           corruption_checks_enabled, pending_backups,
                           chain_file, backup_files, corruption_file, tamper, dr_vars>>

\* ---- _backup_chain (task created by append_entry) -----------------------
\* _cleanup_old_backups: unlink the snapshots older than 30 days.
cleanup_old_backups(files, t) ==
    {f \in files : ~(HoursOf(t - f.mtime) > CleanupDays * 24)}

\* Variant of the backup task with a slip: the chain is rotated after the
\* snapshot.
BackupChain_rotating ==
    /\ pending_backups > 0
    /\ pending_backups' = pending_backups - 1
    /\ backup_files' =
           cleanup_old_backups(
               {f \in backup_files : f.name # now} \cup
               {[name |-> now, entries |-> Len(chain), mtime |-> now]}, now)
    /\ chain_file' = written_chain_file(chain)
    /\ last_backup' = now
    /\ chain' = <<>>
    /\ chain_index' = <<>>
    /\ UNCHANGED <<now, corruption_checks_enabled, corruption_file, result, tamper, dr_vars>>

\* Lines 349-363: snapshot file, current file, _last_backup, cleanup.
BackupChain ==
    /\ pending_backups > 0
    /\ pending_backups' = pending_backups - 1
    /\ backup_files' =
           cleanup_old_backups(
               {f \in backup_files : f.name # now} \cup
               {[name |-> now, entries |-> Len(chain), mtime |-> now]}, now)
    /\ chain_file' = written_chain_file(chain)
    /\ last_backup' = now
    /\ UNCHANGED <<now, chain, chain_index, corruption_checks_enabled,
                   corruption_file, result, tamper, dr_vars>>

\* ---- process restart -----------------------------------------------------
\* __init__ of a new process over the same data_dir (lines 39-45): the chain
\* and the index come from the file, the backup tasks of the old process are
\* gone.
restart(file) ==
    LET loaded == load_existing_chain(file)
    IN  /\ chain' = loaded
        /\ chain_index' = rebuild_index(loaded, Len(loaded))
        /\ last_backup' = now
        /\ corruption_checks_enabled' = TRUE
        /\ pending_backups' = 0
        /\ result' = [op |-> "load_existing_chain", entries |-> Len(loaded)]

Restart ==
    /\ restart(chain_file)
    /\ UNCHANGED <<now, chain_file, backup_files, corruption_file, tamper, dr_vars>>

\* The process dies inside _backup_chain, while it writes the snapshot
\* (lines 352-353) or while it writes the current file (lines 357-358), and
\* is started again.  Both files are written in place.
BackupChainCrash ==
    \E point \in {"backup_file", "current_file"} :
        /\ pending_backups > 0
        /\ backup_files' =
               {f \in backup_files : f.name # now} \cup
               {[name |-> now,
                 entries |-> IF point = "backup_file" THEN 0 ELSE Len(chain),
                 mtime |-> now]}
        /\ chain_file' =
               IF point = "current_file"
               THEN [exists |-> TRUE,
                     content |-> CutShort(written_chain_file(chain).content)]
               ELSE chain_file
        /\ restart(chain_file')
        /\ UNCHANGED <<now, corruption_file, tamper, dr_vars>>

\* ---- the ledger in service ----------------------------------------------
Next ==
    \/ Tick
    \/ AppendEntry
    \/ LogBiasAlert
    \/ Verify
    \/ VerifyRange
    \/ GetDailyStatistics
    \/ GetLatestHash
    \/ BackupChain

Spec == Init /\ [][Next]_vars

\* ---- out-of-band changes to stored entries ------------------------------
\* The five-entry scenario: payloads with consecutive user ids.
ScenarioAppend == append_entry(ScenarioPayload(Len(chain)), ScenarioLen, TRUE)

GarbageHash == [garbage |-> "0000"]

\* The digests an intruder can write into a hash field.
ForgedHashes(ch, p) ==
    {GarbageHash, genesis_hash, calculate_hash(ch[p], TRUE)} \cup
    {ch[q].hash : q \in 1..Len(ch)}

TamperedPayload == [decision_type |-> "procurement", user_id |-> "9999999999"]

\* One field of one stored entry is overwritten (on disk before a reload, or
\* in memory); no ledger method is involved.
Tamper ==
    \E p \in 1..Len(chain), field \in {"data", "hash", "previous_hash"} :
        \E value \in IF field = "data" THEN {TamperedPayload}
                     ELSE ForgedHashes(chain, p) :
            /\ tamper = NoTamper
            /\ value # chain[p][field]
            /\ chain' = [chain EXCEPT ![p][field] = value]
            /\ tamper' = [field |-> field, position |-> p - 1]
            /\ result' = NoResult
            /\ UNCHANGED <<now, chain_index, last_backup,
                           corruption_checks_enabled, pending_backups,
                           chain_file, backup_files, corruption_file, dr_vars>>

NextTamper == ScenarioAppend \/ Tamper \/ Verify

SpecTamper == Init /\ [][NextTamper]_vars

\* ---- the ledger across process restarts ---------------------------------
NextRestart ==
    \/ Tick
    \/ AppendEntry
    \/ BackupChain
    \/ BackupChainCrash
    \/ Restart
    \/ Verify

SpecRestart == Init /\ [][NextRestart]_vars

\* ---- AutomatedBackupSystem -----------------------------------------------
\* A file of size zero; st_size == 0.
EmptyFile == [exists |-> TRUE, content |-> <<>>]

SizeZero(file) == file.content = <<>>

\* backup_dir.mkdir(exist_ok=True), line 119: the directory of this
\* timestamp as it is on disk, or a new empty one.  A directory holds the
\* copy of the chain file, the copies of the configuration, and the manifest
\* with its backup_type, files_backed_up and verification; of the manifest
\* entries the model keeps those of file_type audit_chain.
fresh_backup_dir(t) ==
    [backup_id |-> t, chain_file |-> NoFile, config |-> FALSE,
     manifest |-> FALSE, backup_type |-> Unset, files_backed_up |-> <<>>,
     verification |-> None]

backup_dir_of(storage, t) ==
    IF \E d \in storage : d.backup_id = t
    THEN CHOOSE d \in storage : d.backup_id = t
    ELSE fresh_backup_dir(t)

\* Variant of _verify_backup with a slip: the listed files are not looked at.
verify_backup_trusting(b) ==
    IF ~b.manifest
    THEN [valid |-> FALSE, error |-> "Manifest file missing"]
    ELSE [valid |-> TRUE,
          files_checked |-> Len(b.files_backed_up),
          missing_files |-> <<>>,
          corrupted_files |-> <<>>]

\* _verify_backup: reads backup_manifest.json of the directory and checks
\* every listed file for existence and nonzero size.
verify_backup(b) ==
    IF ~b.manifest
    THEN [valid |-> FALSE, error |-> "Manifest file missing"]
    ELSE LET Missing(file_info) == ~b.chain_file.exists
             Corrupted(file_info) ==
                 b.chain_file.exists /\ SizeZero(b.chain_file)
             missing_files == SelectSeq(b.files_backed_up, Missing)
             corrupted_files == SelectSeq(b.files_backed_up, Corrupted)
         IN  [valid |-> missing_files = <<>> /\ corrupted_files = <<>>,
              files_checked |-> Len(b.files_backed_up),
              missing_files |-> missing_files,
              corrupted_files |-> corrupted_files]

\* create_backup, lines 116-152.  _backup_audit_chain and
\* _backup_configurations copy into the directory (shutil.copy2 copies the
\* bytes as they are; the manifest entry marks the chain file as compressed);
\* _verify_backup runs on the directory as it is then, the manifest of this
\* backup not yet written (line 146); the manifest is written last (line 152).
backup_directory(storage, backup_type, t, file, config) ==
    LET old == backup_dir_of(storage, t)
        copied == [old EXCEPT !.chain_file = IF file.exists THEN file ELSE @,
                              !.config = @ \/ config]
    IN  [copied EXCEPT
            !.manifest = TRUE,
            !.backup_type = backup_type,
            !.files_backed_up =
                IF file.exists
                THEN <<[original_filename |-> "audit_chain.pkl.gz",
                        backup_filename |-> "audit_chain.pkl.gz",
                        compressed |-> TRUE]>>
                ELSE <<>>,
            !.verification = verify_backup(copied)]

\* The directories of daily/ after backup_dir has been written: a backup
\* taken at the same timestamp goes into the same directory.
store_backup(storage, b) ==
    {d \in storage : d.backup_id # b.backup_id} \cup {b}

\* create_backup: io_ok = FALSE is an I/O error raised by the first copy and
\* caught at line 183; the directory has been created by then.
create_backup(backup_type) ==
    \E io_ok \in BOOLEAN :
        LET b == IF io_ok
                 THEN backup_directory(backup_storage, backup_type, now,
                                       chain_file, config_files)
                 ELSE backup_dir_of(backup_storage, now)
        IN  /\ backup_storage' = store_backup(backup_storage, b)
            /\ result' = IF io_ok
                         THEN [op |-> "create_backup", success |-> TRUE,
                               backup_id |-> now,
                               verification |-> b.verification]
                         ELSE [op |-> "create_backup", success |-> FALSE,
                               backup_id |-> now]
            /\ UNCHANGED <<now, chain, chain_index, last_backup,
                           corruption_checks_enabled, pending_backups,
                           chain_file, backup_files, corruption_file, tamper,
                           recovery_in_progress, recovery, recovery_trace,
                           recovery_point, archives, restore_target,
                           config_files, pre_recovery_chain>>

CreateBackup == create_backup("manual")

\* The environment: the copy of the chain file in a backup directory is lost
\* or emptied on disk.
DamageBackup ==
    \E b \in backup_storage, damaged \in {NoFile, EmptyFile} :
        /\ b.chain_file.exists
        /\ ~SizeZero(b.chain_file)
        /\ backup_storage' =
               store_backup(backup_storage, [b EXCEPT !.chain_file = damaged])
        /\ UNCHANGED <<now, chain, chain_index, last_backup,
                       corruption_checks_enabled, pending_backups,
                       chain_file, backup_files, corruption_file, result,
                       tamper, recovery_in_progress, recovery, recovery_trace,
                       recovery_point, archives, restore_target,
                       config_files, pre_recovery_chain>>

\* _find_backup: daily/, then the monthly archives, then the yearly ones.
find_backup(storage, arch, backup_id) ==
    LET daily == {d \in storage : d.backup_id = backup_id}
        Archived(tier) ==
            UNION {{d \in a.backups : d.backup_id = backup_id} :
                       a \in {x \in arch : x.tier = tier}}
    IN  IF daily # {} THEN daily
        ELSE IF Archived("monthly") # {} THEN Archived("monthly")
        ELSE Archived("yearly")

\* Lines 250-266: the target file is opened for writing and the source is
\* copied into it; a manifest entry marked compressed is read through
\* gzip.open.  When the source is not a gzip stream the read raises with the
\* target already opened and emptied; when the stream is cut short it raises
\* after the readable part has been written.
restored_file(b, file_info) ==
    IF file_info.compressed
    THEN IF GzipRaises(b.chain_file.content)
         THEN IF "cut_short" \in DOMAIN b.chain_file.content
              THEN [exists |-> TRUE,
                    content |->
                        CutShort(GzipDecompress(b.chain_file.content.cut_short))]
              ELSE EmptyFile
         ELSE [exists |-> TRUE,
               content |-> GzipDecompress(b.chain_file.content)]
    ELSE b.chain_file

RestoreFailed(backup_id, error) ==
    [op |-> "restore_from_backup", success |-> FALSE,
     backup_id |-> backup_id, error |-> error]

\* restore_from_backup(backup_id, restore_path): into = "restore_path" is a
\* restore into the directory restore_path, into = "primary" a restore over
\* primary_data_dir (restore_path = None).
restore_from_backup(backup_id, into) ==
    LET found == find_backup(backup_storage, archives, backup_id)
        b == CHOOSE d \in found : TRUE
        files == b.files_backed_up
        raised == /\ files # <<>>
                  /\ \/ ~b.chain_file.exists
                     \/ files[1].compressed /\ GzipRaises(b.chain_file.content)
        target == IF into = "restore_path" THEN restore_target ELSE chain_file
        written == IF files # <<>> /\ b.chain_file.exists
                   THEN restored_file(b, files[1])
                   ELSE target
    IN  /\ IF found = {}
           THEN /\ result' = RestoreFailed(backup_id, "Backup not found")
                /\ UNCHANGED <<restore_target, chain_file>>
           ELSE IF ~b.manifest
           THEN /\ result' = RestoreFailed(backup_id, "Backup manifest not found")
                /\ UNCHANGED <<restore_target, chain_file>>
           ELSE IF ~verify_backup(b).valid
           THEN /\ result' = RestoreFailed(backup_id, "failed integrity check")
                /\ UNCHANGED <<restore_target, chain_file>>
           ELSE /\ result' = IF raised
                             THEN RestoreFailed(backup_id, "Restore failed")
                             ELSE [op |-> "restore_from_backup",
                                   success |-> TRUE,
                                   backup_id |-> backup_id,
                                   restore_path |-> into,
                                   restored_files |-> Len(files)]
                /\ restore_target' =
                       IF into = "restore_path" THEN written ELSE restore_target
                /\ chain_file' =
                       IF into = "primary" THEN written ELSE chain_file
        /\ UNCHANGED <<now, chain, chain_index, last_backup,
                       corruption_checks_enabled, pending_backups,
                       backup_files, corruption_file, tamper,
                       recovery_in_progress, recovery, recovery_trace,
                       recovery_point, backup_storage, archives, config_files,
                       pre_recovery_chain>>

RestoreFromBackup ==
    \E backup_id \in 0..MaxClock, into \in {"restore_path", "primary"} :
        restore_from_backup(backup_id, into)

\* ---- the jobs of the backup scheduler ------------------------------------
\* The calendar: tick 0 is midnight of a Monday that is the first day of a
\* month, months have DaysPerMonth days; datetime.weekday() counts Monday as
\* 0 and Sunday as 6.
WeekdayOf(t) == DayOf(t) % 7

MonthOf(t) == DayOf(t) \div DaysPerMonth

\* backup_dir.stat().st_mtime: a backup directory was last written by the
\* create_backup call of its timestamp.
dir_mtime(d) == d.backup_id

\* Variant of the age test with a slip: a directory of exactly the retention
\* age is removed as well.
expired_on_the_day(d, t) ==
    HoursOf(t - dir_mtime(d)) >= daily_retention_days * 24

\* Lines 515, 520: dir_time < datetime.now() - timedelta(days=30).
expired(d, t) == HoursOf(t - dir_mtime(d)) > daily_retention_days * 24

\* _schedule_backup: create_backup("scheduled").  The scheduler is followed
\* while daily/ holds fewer than MaxDaily directories.
ScheduledBackup ==
    /\ Cardinality(backup_storage) < MaxDaily
    /\ create_backup("scheduled")

\* _cleanup_old_backups: rmtree of the directories daily/backup_* whose mtime
\* is before the cutoff.
CleanupOldBackups ==
    /\ backup_storage' = {d \in backup_storage : ~expired(d, now)}
    /\ UNCHANGED <<now, chain, chain_index, last_backup,
                   corruption_checks_enabled, pending_backups, chain_file,
                   backup_files, corruption_file, result, tamper,
                   recovery_in_progress, recovery, recovery_trace,
                   recovery_point, archives, restore_target, config_files,
                   pre_recovery_chain>>

\* _create_monthly_archive: when monthly/archive_<month> does not exist it is
\* created and the daily backups of this month taken on a Sunday are copied
\* into it.
CreateMonthlyArchive ==
    LET current_month == MonthOf(now)
        month_start == current_month * DaysPerMonth
        copied == {d \in backup_storage :
                      /\ DayOf(dir_mtime(d)) >= month_start
                      /\ WeekdayOf(dir_mtime(d)) = Sunday}
    IN  /\ archives' =
               IF \E a \in archives :
                      a.tier = "monthly" /\ a.archive = current_month
               THEN archives
               ELSE archives \cup {[tier |-> "monthly",
                                    archive |-> current_month,
                                    backups |-> copied]}
        /\ UNCHANGED <<now, chain, chain_index, last_backup,
                       corruption_checks_enabled, pending_backups, chain_file,
                       backup_files, corruption_file, result, tamper,
                       recovery_in_progress, recovery, recovery_trace,
                       recovery_point, backup_storage, restore_target,
                       config_files, pre_recovery_chain>>

\* The environment: an operator files a monthly archive under yearly/ as a
\* compliance archive; no method of the backup system writes there.
FileYearlyArchive ==
    \E a \in archives :
        /\ a.tier = "monthly"
        /\ archives' = archives \cup {[a EXCEPT !.tier = "yearly"]}
        /\ UNCHANGED <<now, chain, chain_index, last_backup,
                       corruption_checks_enabled, pending_backups, chain_file,
                       backup_files, corruption_file, result, tamper,
                       recovery_in_progress, recovery, recovery_trace,
                       recovery_point, backup_storage, restore_target,
                       config_files, pre_recovery_chain>>

\* Time passes between two runs of the scheduler: to the next Sunday-distance
\* or by the retention period.
Sleep ==
    \E days \in {Sunday, daily_retention_days} :
        /\ DayOf(now) + days <= MaxDay
        /\ now' = now + (days * 24) \div TickHours
        /\ UNCHANGED <<chain, chain_index, last_backup,
                       corruption_checks_enabled, pending_backups, chain_file,
                       backup_files, corruption_file, result, tamper, dr_vars>>

NextRetention ==
    \/ Sleep
    \/ ScheduledBackup
    \/ CleanupOldBackups
    \/ CreateMonthlyArchive
    \/ FileYearlyArchive

SpecRetention == Init /\ [][NextRetention]_vars

\* ---- the ledger with the backup system ----------------------------------
NextBackup ==
    \/ Tick
    \/ AppendEntry
    \/ BackupChain
    \/ CreateBackup
    \/ DamageBackup
    \/ RestoreFromBackup

SpecBackup == Init /\ [][NextBackup]_vars

\* ---- DisasterRecoverySystem -----------------------------------------------
\* The recovery system works on the files of primary_data_dir; it holds no
\* reference to the ledger object.  What it leaves alone:
ledger_memory == <<now, chain, chain_index, last_backup,
                   corruption_checks_enabled, pending_backups, backup_files,
                   corruption_file, tamper>>

NoTargetTime == 0 - 1

\* _calculate_recovery_point_checksum: a digest over the files of the
\* recovery point other than the metadata file.
recovery_point_checksum(chain_backup, config) ==
    Sha256([audit_chain_backup |-> chain_backup, config |-> config])

\* create_recovery_point, lines 73-117: the directory RP_<timestamp> with the
\* copy of the chain file (made only when the chain file exists), the copy
\* of the configuration, and the metadata with the checksum.
recovery_point_dir(t, file, config) ==
    [exists |-> TRUE,
     recovery_point_id |-> t,
     chain_backup |-> file,
     config |-> config,
     checksum |-> recovery_point_checksum(file, config)]

\* create_recovery_point.  The model follows the latest recovery point.
CreateRecoveryPoint ==
    /\ recovery = Idle
    /\ recovery_point' = recovery_point_dir(now, chain_file, config_files)
    /\ result' = [op |-> "create_recovery_point", success |-> TRUE,
                  recovery_point_id |-> now]
    /\ UNCHANGED <<ledger_memory, archives,
                   chain_file, recovery_in_progress, recovery,
                   recovery_trace, backup_storage, restore_target,
                   config_files, pre_recovery_chain>>

\* The environment: the stored copy of the chain decays on disk.
DamageRecoveryPoint ==
    /\ recovery_point.exists
    /\ recovery_point.chain_backup.exists
    /\ ~GzipRaises(recovery_point.chain_backup.content)
    /\ recovery_point' =
           [recovery_point EXCEPT !.chain_backup.content = CutShort(@)]
    /\ UNCHANGED <<ledger_memory, archives,
                   chain_file, result, recovery_in_progress,
                   recovery, recovery_trace, backup_storage, restore_target,
                   config_files, pre_recovery_chain>>

\* The environment: config.json and settings.ini are deployed next to
\* primary_data_dir.
WriteConfig ==
    /\ ~config_files
    /\ config_files' = TRUE
    /\ UNCHANGED <<ledger_memory, archives,
                   chain_file, result, recovery_in_progress,
                   recovery, recovery_trace, recovery_point, backup_storage,
                   restore_target, pre_recovery_chain>>

\* _verify_recovery_point_integrity: checksum and required files.
recovery_point_valid(rp) ==
    /\ recovery_point_checksum(rp.chain_backup, rp.config) = rp.checksum
    /\ rp.chain_backup.exists

\* test_recovery_procedures, the report: the four tests of lines 290-343.
\* backup_running is what get_backup_status reports of the backup system
\* (is_running and status other than "failed").
test_results(rp, backup_running) ==
    LET tests_performed ==
            <<[test |-> "recovery_point_creation", success |-> TRUE],
              [test |-> "recovery_point_integrity",
               success |-> recovery_point_valid(rp)],
              [test |-> "backup_system_connectivity",
               success |-> backup_running],
              [test |-> "recovery_verification", success |-> TRUE]>>
    IN  [op |-> "test_recovery_procedures",
         tests_performed |-> tests_performed,
         overall_success |->
             \A i \in 1..Len(tests_performed) : tests_performed[i].success]

\* Variant of test_recovery_procedures with a slip: the test takes a backup
\* through the backup system.
TestRecoveryProcedures_backing_up ==
    \E backup_running \in BOOLEAN :
        LET rp == recovery_point_dir(now, chain_file, config_files)
        IN  /\ recovery = Idle
            /\ recovery_point' = rp
            /\ result' = test_results(rp, backup_running)
            /\ backup_storage' =
                   store_backup(backup_storage,
                       backup_directory(backup_storage, "recovery_test", now,
                                        chain_file, config_files))
            /\ UNCHANGED <<ledger_memory, archives,
                           chain_file, recovery_in_progress, recovery,
                           recovery_trace, restore_target,
                           config_files, pre_recovery_chain>>

\* test_recovery_procedures: creates a recovery point, verifies it, asks the
\* backup system for its status and runs the simulated verification.
TestRecoveryProcedures ==
    \E backup_running \in BOOLEAN :
        LET rp == recovery_point_dir(now, chain_file, config_files)
        IN  /\ recovery = Idle
            /\ recovery_point' = rp
            /\ result' = test_results(rp, backup_running)
            /\ UNCHANGED <<ledger_memory, archives,
                           chain_file, recovery_in_progress, recovery,
                           recovery_trace, backup_storage, restore_target,
                           config_files, pre_recovery_chain>>

\* The recovery point ids a caller asks for: the one that exists, or one
\* that does not.
RequestedPoints ==
    IF recovery_point.exists THEN {recovery_point.recovery_point_id} ELSE {0}

RecoveryRejected ==
    [op |-> "perform_recovery", success |-> FALSE,
     error |-> "Recovery operation already in progress",
     current_recovery |-> TRUE]

\* Variant of the entry of perform_recovery with a slip: the flag is not
\* looked at.
StartRecovery_unguarded ==
    \E recovery_point_id \in RequestedPoints, target_time \in {NoTargetTime, 0} :
        /\ recovery_in_progress' = TRUE
        /\ recovery' = [pc |-> "find",
                        recovery_point_id |-> recovery_point_id,
                        target_time |-> target_time,
                        recovery_steps |-> <<>>]
        /\ recovery_trace' = <<>>
        /\ UNCHANGED <<ledger_memory, archives,
                       chain_file, result, recovery_point,
                       backup_storage, restore_target, config_files,
                       pre_recovery_chain>>

\* perform_recovery, lines 159-167: the single-flight check and the start of
\* a recovery.
StartRecovery ==
    \E recovery_point_id \in RequestedPoints, target_time \in {NoTargetTime, 0} :
        IF recovery_in_progress
        THEN /\ result' = RecoveryRejected
             /\ UNCHANGED <<ledger_memory, archives,
                            chain_file, recovery_in_progress,
                            recovery, recovery_trace, recovery_point,
                            backup_storage, restore_target, config_files,
                            pre_recovery_chain>>
        ELSE /\ recovery_in_progress' = TRUE
             /\ recovery' = [pc |-> "find",
                             recovery_point_id |-> recovery_point_id,
                             target_time |-> target_time,
                             recovery_steps |-> <<>>]
             /\ recovery_trace' = <<>>
             /\ UNCHANGED <<ledger_memory, archives,
                            chain_file, result, recovery_point,
                            backup_storage, restore_target, config_files,
                            pre_recovery_chain>>

\* Variant of the exit of perform_recovery with a slip: no finally clause.
recovery_failed_flag_kept(error) ==
    /\ result' = [op |-> "perform_recovery", success |-> FALSE, error |-> error]
    /\ recovery_in_progress' = recovery_in_progress
    /\ recovery' = Idle
    /\ recovery_trace' = <<>>

\* Lines 244-267: the except clause returns the failure, the finally clause
\* clears the flag.
recovery_failed(error) ==
    /\ result' = [op |-> "perform_recovery", success |-> FALSE, error |-> error]
    /\ recovery_in_progress' = FALSE
    /\ recovery' = Idle
    /\ recovery_trace' = <<>>

recovery_goes_on(pc) ==
    /\ recovery' = [recovery EXCEPT !.pc = pc]
    /\ UNCHANGED <<result, recovery_in_progress>>

\* Lines 173-183: find the recovery point, load its metadata, verify it.
RecoveryVerifyPoint ==
    /\ recovery.pc = "find"
    /\ IF ~recovery_point.exists
          \/ recovery_point.recovery_point_id # recovery.recovery_point_id
       THEN recovery_failed("Recovery point not found")
       ELSE IF recovery_point_valid(recovery_point)
       THEN /\ recovery_trace' = Append(recovery_trace, "verify_recovery_point")
            /\ recovery_goes_on("pre_backup")
       ELSE recovery_failed("Recovery point integrity check failed")
    /\ UNCHANGED <<ledger_memory, archives,
                   chain_file, recovery_point, backup_storage,
                   restore_target, config_files, pre_recovery_chain>>

\* Line 186, _create_pre_recovery_backup: create_backup("pre_recovery").
RecoveryPreBackup ==
    \E io_ok \in BOOLEAN :
        /\ recovery.pc = "pre_backup"
        /\ IF io_ok
           THEN /\ recovery_trace' = Append(recovery_trace, "pre_recovery_backup")
                /\ backup_storage' =
                       store_backup(backup_storage,
                           backup_directory(backup_storage, "pre_recovery",
                                            now, chain_file, config_files))
                /\ recovery_goes_on("restore_chain")
           ELSE /\ recovery_failed("Failed to create pre-recovery backup")
                /\ backup_storage' =
                       store_backup(backup_storage,
                                    backup_dir_of(backup_storage, now))
        /\ UNCHANGED <<ledger_memory, archives, chain_file, recovery_point,
                       restore_target, config_files, pre_recovery_chain>>

\* A restore step returns its outcome; perform_recovery appends it to
\* recovery_steps and goes on (lines 193-204).
step_done(name, success, pc) ==
    /\ recovery' = [recovery EXCEPT
                       !.pc = pc,
                       !.recovery_steps =
                           Append(@, [step |-> name, success |-> success])]
    /\ UNCHANGED <<result, recovery_in_progress>>

\* _truncate_chain_to_time, lines 907-912: prints a message.
truncate_chain_to_time(file, target_time) == file

\* _restore_audit_chain: io_ok = FALSE is an I/O error raised by the first
\* copy and caught at line 620.
RecoveryRestoreChain ==
    \E io_ok \in BOOLEAN :
        LET source_chain == recovery_point.chain_backup
            success == source_chain.exists /\ io_ok
        IN  /\ recovery.pc = "restore_chain"
            /\ recovery_trace' = Append(recovery_trace, "restore_chain")
            /\ pre_recovery_chain' =
                   IF success /\ chain_file.exists THEN chain_file
                   ELSE pre_recovery_chain
            /\ chain_file' =
                   IF ~success THEN chain_file
                   ELSE IF recovery.target_time # NoTargetTime
                        THEN truncate_chain_to_time(source_chain,
                                                    recovery.target_time)
                        ELSE source_chain
            /\ step_done("audit_chain", success, "restore_config")
            /\ UNCHANGED <<ledger_memory, archives,
                           recovery_point, backup_storage,
                           restore_target, config_files>>

\* _restore_system_config
RecoveryRestoreConfig ==
    \E io_ok \in BOOLEAN :
        /\ recovery.pc = "restore_config"
        /\ recovery_trace' = Append(recovery_trace, "restore_config")
        /\ config_files' = (config_files \/ (io_ok /\ recovery_point.config))
        /\ step_done("system_config", io_ok, "restore_user_data")
        /\ UNCHANGED <<ledger_memory, archives, chain_file, recovery_point,
                       backup_storage, restore_target, pre_recovery_chain>>

\* _restore_user_data
RecoveryRestoreUserData ==
    \E io_ok \in BOOLEAN :
        /\ recovery.pc = "restore_user_data"
        /\ recovery_trace' = Append(recovery_trace, "restore_user_data")
        /\ step_done("user_data", io_ok, "verify")
        /\ UNCHANGED <<ledger_memory, archives, chain_file, recovery_point,
                       backup_storage, restore_target, config_files,
                       pre_recovery_chain>>

\* _verify_recovery_success in mode "full": two checks look at the disk, the
\* other four return fixed results.
checks_performed ==
    <<[check |-> "audit_chain_exists", success |-> chain_file.exists],
      [check |-> "config_files_exist", success |-> config_files],
      [check |-> "chain_integrity", success |-> TRUE],
      [check |-> "system_functionality", success |-> TRUE],
      [check |-> "performance_validation", success |-> TRUE],
      [check |-> "compliance_validation", success |-> TRUE]>>

\* recovery_trace holds the steps the running call has completed; it is
\* emptied when the call returns.

\* Lines 207-242: verification, the recovery record that is logged, and the
\* value returned.
RecoveryFinish ==
    LET checks == checks_performed
        overall_success == \A i \in 1..Len(checks) : checks[i].success
    IN  /\ recovery.pc = "verify"
        /\ recovery_trace' = <<>>
        /\ result' = [op |-> "perform_recovery",
                      success |-> TRUE,
                      verification_result |->
                          [overall_success |-> overall_success,
                           checks_performed |-> checks],
                      recovery_point_used |-> recovery.recovery_point_id,
                      recovery_record |->
                          [success |-> overall_success,
                           recovery_steps |-> recovery.recovery_steps]]
        /\ recovery_in_progress' = FALSE
        /\ recovery' = Idle
        /\ UNCHANGED <<ledger_memory, archives, chain_file, recovery_point,
                       backup_storage, restore_target, config_files,
                       pre_recovery_chain>>

\* ---- the ledger with the recovery system --------------------------------
NextRecovery ==
    \/ Tick
    \/ AppendEntry
    \/ BackupChain
    \/ WriteConfig
    \/ CreateRecoveryPoint
    \/ DamageRecoveryPoint
    \/ StartRecovery
    \/ RecoveryVerifyPoint
    \/ RecoveryPreBackup
    \/ RecoveryRestoreChain
    \/ RecoveryRestoreConfig
    \/ RecoveryRestoreUserData
    \/ RecoveryFinish

SpecRecovery == Init /\ [][NextRecovery]_vars

\* ---- the ledger with recovery tests ------------------------------------
NextRecoveryTest ==
    \/ Tick
    \/ AppendEntry
    \/ BackupChain
    \/ WriteConfig
    \/ CreateBackup
    \/ CreateRecoveryPoint
    \/ TestRecoveryProcedures

SpecRecoveryTest == Init /\ [][NextRecoveryTest]_vars

\* ---- properties ---------------------------------------------------------
VerifyReturned == result.op = "verify_chain_integrity"

\* verify_chain_integrity ran its loop to the end and returned its report
\* (line 173), or returned the empty-chain report (line 114).
VerifyCompleted == VerifyReturned /\ "entries_count" \in DOMAIN result

ReportedEntries ==
    IF "corrupted_entries" \in DOMAIN result THEN result.corrupted_entries ELSE <<>>

HashMismatchAt(p) ==
    \E i \in 1..Len(ReportedEntries) :
        /\ ReportedEntries[i].position = p
        /\ "actual_hash" \in DOMAIN ReportedEntries[i]

BrokenLinkAt(p) ==
    \E i \in 1..Len(ReportedEntries) :
        /\ ReportedEntries[i].position = p
        /\ "chain_link_broken" \in DOMAIN ReportedEntries[i]

ReportedAt(p) ==
    \E i \in 1..Len(ReportedEntries) : ReportedEntries[i].position = p

\* The entries the latest verification examined before it returned.
Examined ==
    IF "entries_checked" \in DOMAIN result THEN result.entries_checked ELSE Len(chain)

\* C1: a chain built only by append_entry verifies clean: valid, entries_count
\* equal to the number of appends, integrity_score 1.0, no corrupted entries.
C1_AppendedChainVerifiesClean ==
    (VerifyCompleted /\ tamper = NoTamper) =>
        /\ result.valid
        /\ result.entries_count = Len(chain)
        /\ result.integrity_score.num = result.integrity_score.den
        /\ ReportedEntries = <<>>

\* C2: once corruption handling has set the writes-disabled flag, no step
\* makes the chain grow.
C2_QuarantineRefusesAppends ==
    [][~corruption_checks_enabled => chain' = chain]_vars

\* C3: in a chain built by append_entry every entry after the first carries
\* the hash of its predecessor as previous_hash.
C3_LinksHold ==
    tamper = NoTamper =>
        \A i \in 2..Len(chain) : chain[i].previous_hash = chain[i - 1].hash

C3_Witness == Len(chain) >= 2 /\ result.op = "append_entry"

\* C4: after an out-of-band change of the data or hash field of one entry,
\* a completed verification is not valid, lists that entry's position and
\* scores below 1.0.
C4_TamperDetected ==
    (VerifyCompleted /\ tamper.field \in {"data", "hash"}) =>
        /\ ~result.valid
        /\ ReportedAt(tamper.position)
        /\ result.integrity_score.num < result.integrity_score.den

\* C5 as stated: after an out-of-band change of previous_hash of a non-first
\* entry, a completed verification reports a broken link at that position
\* and no hash mismatch for it.
C5_LinkBrokenHashPasses ==
    (VerifyCompleted /\ tamper.field = "previous_hash" /\ tamper.position > 0) =>
        /\ BrokenLinkAt(tamper.position)
        /\ ~HashMismatchAt(tamper.position)

\* C5 as amended: after an out-of-band change of previous_hash of a non-first
\* entry, a completed verification reports a broken link at that position
\* and also a hash mismatch for it, previous_hash being part of the hashed
\* content.
C5_LinkBrokenHashFails ==
    (VerifyCompleted /\ tamper.field = "previous_hash" /\ tamper.position > 0) =>
        /\ BrokenLinkAt(tamper.position)
        /\ HashMismatchAt(tamper.position)

C5_Witness ==
    /\ VerifyCompleted
    /\ tamper.field = "previous_hash"
    /\ tamper.position > 0
    /\ Len(chain) > tamper.position + 1

\* C6: integrity_score is 1 - corruptedCount/totalCount, and altering only
\* the hash of the entry at position 2 of a five-entry chain gives valid =
\* false, position 2 among the corrupted entries and a score of 0.8.
C6_ScoreOfFiveEntryScenario ==
    (VerifyCompleted /\ chain # <<>>) =>
        /\ result.integrity_score.den = Len(chain)
        /\ result.integrity_score.num = Len(chain) - Len(ReportedEntries)
        /\ (/\ Len(chain) = 5
            /\ tamper = [field |-> "hash", position |-> 2]
            /\ chain[3].hash = GarbageHash) =>
              /\ ~result.valid
              /\ ReportedAt(2)
              /\ 5 * result.integrity_score.num = 4 * result.integrity_score.den

\* C7: whenever a verification that has returned found a hash mismatch or a
\* broken link among the entries it examined, a corruption report is on
\* disk and the writes-disabled flag is set.
C7_DetectionAlwaysHandled ==
    (VerifyReturned /\ tamper # NoTamper /\ scan(chain, Examined) # <<>>) =>
        /\ corruption_file # NoReport
        /\ ~corruption_checks_enabled

\* C8: every step of the ledger in service (append, alert, verification,
\* range verification, statistics, backup task) leaves the earlier chain as
\* a prefix of the chain.
C8_AppendOnly == [][IsPrefix(chain, chain')]_vars

C8_Witness ==
    /\ chain_file.exists
    /\ Len(chain) > Len(load_existing_chain(chain_file))
    /\ result.op = "verify_range"

\* C9: the entry at position p carries chain_position p, whatever reads,
\* verifications and backup tasks ran between the appends.
C9_PositionsMonotonic ==
    \A p \in 1..Len(chain) : chain[p].chain_position = p - 1

C9_Witness ==
    /\ Len(chain) >= 2
    /\ last_backup > 0
    /\ ~corruption_checks_enabled

\* C10: get_latest_hash on an empty chain returns the genesis sentinel, and
\* the first entry appended to an empty chain has it as previous_hash.
C10_GenesisDeterminism ==
    /\ (chain = <<>> /\ result.op = "get_latest_hash") => result.value = genesis_hash
    /\ (chain # <<>> /\ tamper = NoTamper) => chain[1].previous_hash = genesis_hash

C10_Witness ==
    /\ Len(chain) = 1
    /\ result.op = "get_latest_hash"
    /\ chain[1].previous_hash = genesis_hash
\* C11: an append_entry whose payload cannot be serialized raises and leaves
\* chain, chain_index and the latest hash exactly as they were.
C11_FailedAppendChangesNothing ==
    [][result' = AppendFailed =>
          /\ chain' = chain
          /\ chain_index' = chain_index
          /\ get_latest_hash(chain') = get_latest_hash(chain)]_vars

\* A rejected append between two committed ones: the chain holds one entry.
C11_Witness == result = AppendFailed /\ Len(chain) = 1

Reloaded == result.op = "load_existing_chain"
Readable(file) == file.exists /\ ~GzipRaises(file.content)

C13_PersistIsAtomic ==
    [][Readable(chain_file) =>
          /\ chain_file' \in {chain_file, written_chain_file(chain)}
          /\ Reloaded' => chain' # <<>>]_vars

\* C20: create_backup of a persisted chain followed by restore_from_backup
\* of that backup into an empty directory yields a chain file with the bytes
\* of the chain file that was backed up.
C20_BackupRestoreRoundTrip ==
    [][(/\ result'.op = "restore_from_backup"
        /\ result'.success
        /\ result'.restore_path = "restore_path"
        /\ result'.restored_files > 0
        /\ restore_target' # restore_target) =>
          \E b \in backup_storage :
              /\ b.backup_id = result'.backup_id
              /\ restore_target' = b.chain_file]_vars

RecoveryRunning == recovery.pc # "idle"
RecoveryReturned == result.op = "perform_recovery" /\ "recovery_record" \in DOMAIN result
StepFailed(steps) == \E i \in 1..Len(steps) : ~steps[i].success
ChainRestored ==
    /\ recovery.pc = "restore_chain"
    /\ recovery'.pc = "restore_config"
    /\ recovery'.recovery_steps[Len(recovery'.recovery_steps)].success

\* C14: at most one perform_recovery is in progress: while one runs the flag
\* is set and no other call starts, and a call made meanwhile returns the
\* recovery-in-progress failure without executing a step or touching the
\* state of the running recovery.
C14_SingleFlight ==
    [][/\ RecoveryRunning => recovery_in_progress
       /\ (RecoveryRunning /\ recovery'.pc = "find") =>
              recovery' = recovery /\ recovery_trace' = recovery_trace
       /\ (result' = RecoveryRejected /\ result # RecoveryRejected) =>
              /\ RecoveryRunning
              /\ UNCHANGED <<dr_vars, chain_file>>]_vars

\* A second call was turned away and the first recovery went on to restore
\* the chain.
C14_Witness ==
    /\ result = RecoveryRejected
    /\ recovery.pc = "restore_config"
    /\ recovery_in_progress

\* C15: the steps of perform_recovery run in the order pre-recovery backup,
\* recovery-point verification, chain restore, configuration restore,
\* user-data restore, post-recovery verification.
C15_StepOrder ==
    IsPrefix(recovery_trace,
             <<"pre_recovery_backup", "verify_recovery_point", "restore_chain",
               "restore_config", "restore_user_data", "verify_recovery">>)

\* C16: perform_recovery returns success only if every restore step and
\* every post-recovery check reported success.
C16_SuccessNeedsEveryStep ==
    (RecoveryReturned /\ result.success) =>
        /\ ~StepFailed(result.recovery_record.recovery_steps)
        /\ ~StepFailed(result.verification_result.checks_performed)

\* C17: once a restore step has reported failure, no later step of that
\* recovery is executed and the call does not return success.
C17_FailedStepAborts ==
    [][(RecoveryRunning /\ StepFailed(recovery.recovery_steps)) =>
          /\ recovery_trace' = recovery_trace
          /\ ~(RecoveryReturned' /\ result'.success)]_vars

\* C18: after a chain restore with a target_time the chain file of the
\* primary data directory holds no entry later than target_time.
C18_RestoreTruncatesToTargetTime ==
    [][(ChainRestored /\ recovery.target_time # NoTargetTime) =>
          LET restored == load_existing_chain(chain_file')
          IN  \A p \in 1..Len(restored) :
                  restored[p].timestamp <= recovery.target_time]_vars

\* C19: once perform_recovery has restored the chain file, the live chain
\* and index of the ledger are the restored chain.
C19_RestoreReplacesLiveChain ==
    [][ChainRestored =>
          LET restored == load_existing_chain(chain_file')
          IN  /\ chain' = restored
              /\ chain_index' = rebuild_index(restored, Len(restored))]_vars

RestoreReturned == result' # result /\ result'.op = "restore_from_backup"

\* A backup directory that does not pass the integrity check: no manifest,
\* or a listed artifact that is missing or of size zero.
FailsIntegrityCheck(b) ==
    \/ ~b.manifest
    \/ /\ b.files_backed_up # <<>>
       /\ (~b.chain_file.exists \/ b.chain_file.content = <<>>)

\* C21: restore_from_backup with an unknown backup id, or with a backup that
\* fails the integrity check, returns a failure result and leaves the chain
\* file of the target directory as it was, absent when it was absent.
C21_RefusedRestoreWritesNothing ==
    [][RestoreReturned =>
          LET found == {b \in backup_storage : b.backup_id = result'.backup_id}
          IN  (found = {} \/ \E b \in found : FailsIntegrityCheck(b)) =>
                  /\ ~result'.success
                  /\ restore_target' = restore_target
                  /\ chain_file' = chain_file]_vars

\* A restore from a backup whose chain artifact has size zero was refused
\* while a chain file is in service.
C21_Witness ==
    /\ result.op = "restore_from_backup"
    /\ result = RestoreFailed(result.backup_id, "failed integrity check")
    /\ \E b \in backup_storage :
           b.backup_id = result.backup_id /\ b.chain_file = EmptyFile
    /\ chain_file.exists

\* C22: the verification that create_backup records and returns is valid
\* exactly when every artifact listed in the manifest it has written exists
\* in the backup directory with nonzero size.
C22_VerificationCoversWrittenManifest ==
    [][(result' # result /\ result'.op = "create_backup" /\ result'.success) =>
          \E b \in backup_storage' :
              /\ b.backup_id = result'.backup_id
              /\ b.verification = result'.verification
              /\ result'.verification.valid <=> ~FailsIntegrityCheck(b)]_vars

\* C23: once corruption handling has set the writes-disabled flag, it stays
\* set: no step of the ledger, in service or across a restart of its process,
\* brings it back without an operator.
C23_QuarantineIsSticky ==
    [][~corruption_checks_enabled => ~corruption_checks_enabled']_vars

\* C27: the index is the exact inverse of the chain: the id of every entry
\* is a key of chain_index and maps to the position of that entry.
C27_IndexIsInverse ==
    \A p \in 1..Len(chain) :
        /\ chain[p].id \in DOMAIN chain_index
        /\ chain_index[chain[p].id] = p - 1

\* C28: the integrity_score of a completed verification lies in [0, 1],
\* whatever the chain holds.
C28_ScoreInUnitInterval ==
    VerifyCompleted =>
        /\ 0 <= result.integrity_score.num
        /\ result.integrity_score.num <= result.integrity_score.den

\* C24: a step of verify_range or of get_daily_statistics leaves the chain,
\* the index and the writes-disabled flag as they were, also when
\* verify_range reports corrupted entries.
C24_ReadsAreReadOnly ==
    [][(VerifyRange \/ GetDailyStatistics) =>
          /\ chain' = chain
          /\ chain_index' = chain_index
          /\ corruption_checks_enabled' = corruption_checks_enabled]_vars

\* verify_range has reported a corrupted entry of a two-entry chain and the
\* flag is still clear.
C24_Witness ==
    /\ result.op = "verify_range"
    /\ ~result.valid
    /\ Len(chain) = 2
    /\ corruption_checks_enabled

\* C25: a step of test_recovery_procedures leaves the live chain, its index,
\* the chain file of the primary data directory and every directory of the
\* backup store as they were.
C25_TestIsNonDestructive ==
    [][TestRecoveryProcedures =>
          /\ chain' = chain
          /\ chain_index' = chain_index
          /\ chain_file' = chain_file
          /\ backup_storage' = backup_storage
          /\ archives' = archives]_vars

\* The test has run over a persisted chain with a backup in the store.
C25_Witness ==
    /\ result.op = "test_recovery_procedures"
    /\ chain_file.exists
    /\ backup_storage # {}
    /\ recovery_point.exists

\* C30: a recovery point that create_recovery_point has just reported as
\* created passes the recovery-point integrity verification, whether or not
\* a chain file existed when it was created.
C30_CreatedPointVerifies ==
    [][(result' # result /\ result'.op = "create_recovery_point"
                         /\ result'.success) =>
          recovery_point_valid(recovery_point')]_vars

\* C29: recovery_in_progress is set exactly while a perform_recovery call
\* that passed the single-flight check is executing; when that call returns,
\* with success or with a failure at any step, the flag is clear, and a call
\* that is rejected leaves the flag as it is.
C29_FlagFollowsRecovery ==
    [][/\ recovery_in_progress' <=> RecoveryRunning'
       /\ (result' # result /\ result'.op = "perform_recovery"
                            /\ result' # RecoveryRejected) =>
              ~recovery_in_progress' /\ ~RecoveryRunning'
       /\ (result' = RecoveryRejected /\ result # RecoveryRejected) =>
              recovery_in_progress' = recovery_in_progress]_vars

\* A second recovery is running after the first one failed at the
\* pre-recovery backup.
C29_Witness ==
    /\ RecoveryRunning
    /\ recovery_in_progress
    /\ result = [op |-> "perform_recovery", success |-> FALSE,
                 error |-> "Failed to create pre-recovery backup"]

\* C26: a backup directory disappears from the daily tier only when it is
\* older than 30 days, and every monthly and yearly archive stays as it is.
C26_RetentionFloor ==
    [][/\ \A d \in backup_storage :
              (\A e \in backup_storage' : e.backup_id # d.backup_id) =>
                  HoursOf(now - d.backup_id) > 30 * 24
       /\ archives \subseteq archives']_vars

\* Cleanup has removed a daily backup whose copies are still held by a
\* monthly and by a yearly archive.
C26_Witness ==
    \E a \in archives, y \in archives :
        /\ a.tier = "monthly"
        /\ y.tier = "yearly"
        /\ \E d \in a.backups :
               /\ d \in y.backups
               /\ \A e \in backup_storage : e.backup_id # d.backup_id
               /\ backup_storage # {}

====
